---- MODULE Spec2Model ----
(***************************************************************************)
(* Model of the DCC interior-light decoder of src/src/main.cpp: the CV     *)
(* table and its EEPROM copy, the function cache, the factory-reset        *)
(* index polled by loop(), and the two light outputs.  Every callback the  *)
(* NmraDcc library invokes is one action; what a callback does to the      *)
(* EEPROM, the caches and the lights, in the order of the code, is kept in *)
(* the trace of the last operation.                                        *)
(***************************************************************************)
EXTENDS Integers, Sequences, FiniteSets, TLC

VARIABLES
  pc,                     \* "boot" before setup() has run, "run" while loop() polls
  eeprom,                 \* the bytes of the EEPROM the program uses
  cvValue,                \* cvData[i].value, the RAM cache of the CVs, by table index
  funcCache,              \* state of the function groups, indexed by FN_GROUP
  factoryDefaultCVIndex,  \* number of CVs still to reset, 0 when no reset is pending
  light,                  \* level of the two light pins, 0 (LOW) .. 255 (HIGH)
  lastOp,                 \* the last callback: its arguments, result and effects in order
  resetRun,               \* the CV values at the last reset request and the steps since
  nEvents                 \* number of state-changing protocol events so far

vars == <<pc, eeprom, cvValue, funcCache, factoryDefaultCVIndex, light, lastOp, resetRun, nEvents>>

----------------------------------------------------------------------------
(* Bounds of the model *)

\* State-changing protocol events (CV writes, function packets, reset requests)
\* in one behaviour; the reset steps of loop() are not counted.
MaxEvents == 2

----------------------------------------------------------------------------
(* Constants of the program *)

numberOfLights == 2
warmWhiteLight == 0
coolWhiteLight == 1

\* FN_GROUP of NmraDcc.h: FN_0_4 = 1, ..., FN_LAST (funcCache has FN_LAST entries)
FN_0_4 == 1
FN_5_8 == 2
FN_9_12 == 3
FN_13_20 == 4
FN_21_28 == 5
FN_LAST == 6

numberOfFunctionGroups == FN_LAST
numberOfFunctions == 29
fctsEepromAddress == 255 - numberOfFunctionGroups + 1

\* funcBitMask[f] and funcGroup[f] for f = 0..28 (entry f+1 of the tuples)
funcBitMask ==
  << 16, 1, 2, 4, 8,
     1, 2, 4, 8,
     1, 2, 4, 8,
     1, 2, 4, 8, 16, 32, 64, 128,
     1, 2, 4, 8, 16, 32, 64, 128 >>

funcGroup ==
  << FN_0_4, FN_0_4, FN_0_4, FN_0_4, FN_0_4,
     FN_5_8, FN_5_8, FN_5_8, FN_5_8,
     FN_9_12, FN_9_12, FN_9_12, FN_9_12,
     FN_13_20, FN_13_20, FN_13_20, FN_13_20, FN_13_20, FN_13_20, FN_13_20, FN_13_20,
     FN_21_28, FN_21_28, FN_21_28, FN_21_28, FN_21_28, FN_21_28, FN_21_28, FN_21_28 >>

\* enum cvIndex
cvPrimaryAddress == 0
cvManufacturerVersionNumber == 1
cvManufacturerIDNumber == 2
cvExtendedAddressMSB == 3
cvExtendedAddressLSB == 4
cvConsistAddress == 5
cvModeControl == 6
cvLightBrightness == 7
cvLightColorTemperature == 8
cvLightFctCtrl == 9
cvLightBrightness2 == 10
cvLightColorTemperature2 == 11
cvLightFctCtrl2 == 12
cvLightTest == 13

cvStruct(idx, nr, apply, wr, def, val) ==
  [cvIndex |-> idx, cvNr |-> nr, applyDefault |-> apply, writable |-> wr,
   defaultValue |-> def, value |-> val]

\* The initialiser of cvData[] (entry i+1 is cvData[i])
cvDataInit ==
  << cvStruct(cvPrimaryAddress, 1, TRUE, TRUE, 3, 0),
     cvStruct(cvManufacturerVersionNumber, 7, FALSE, FALSE, 0, 0),
     cvStruct(cvManufacturerIDNumber, 8, FALSE, FALSE, 0, 0),
     cvStruct(cvExtendedAddressMSB, 17, TRUE, TRUE, 0, 0),
     cvStruct(cvExtendedAddressLSB, 18, TRUE, TRUE, 0, 0),
     cvStruct(cvConsistAddress, 19, TRUE, TRUE, 0, 0),
     cvStruct(cvModeControl, 29, TRUE, TRUE, 2, 0),
     cvStruct(cvLightBrightness, 1000, TRUE, TRUE, 50, 0),
     cvStruct(cvLightColorTemperature, 1001, TRUE, TRUE, 255, 0),
     cvStruct(cvLightFctCtrl, 1002, TRUE, TRUE, 1, 0),
     cvStruct(cvLightBrightness2, 1003, TRUE, TRUE, 30, 0),
     cvStruct(cvLightColorTemperature2, 1004, TRUE, TRUE, 255, 0),
     cvStruct(cvLightFctCtrl2, 1005, TRUE, TRUE, 20, 0),
     cvStruct(cvLightTest, 1010, TRUE, TRUE, 0, 0) >>

nrCVs == Len(cvDataInit)

CVIndexes == 0 .. (nrCVs - 1)

\* The table cvData[] as it stands: only the field value ever changes
cvData == [i \in CVIndexes |-> [cvDataInit[i + 1] EXCEPT !.value = cvValue[i]]]

warmWhiteLuminanceTable ==
  <<  0,   0,   0,   1,   1,   1,   1,   1,   1,   1,   1,   1,   1,   1,   1,   1,
      1,   1,   1,   1,   1,   2,   2,   2,   2,   2,   2,   2,   2,   3,   3,   3,
      3,   3,   4,   4,   4,   4,   4,   5,   5,   5,   5,   6,   6,   6,   6,   7,
      7,   7,   8,   8,   8,   9,   9,   9,  10,  10,  10,  11,  11,  11,  12,  12,
     13,  13,  14,  14,  14,  15,  15,  16,  16,  17,  17,  18,  18,  19,  19,  20,
     20,  21,  22,  22,  23,  23,  24,  24,  25,  26,  26,  27,  28,  28,  29,  30,
     30,  31,  32,  32,  33,  34,  34,  35,  36,  37,  37,  38,  39,  40,  41,  41,
     42,  43,  44,  45,  46,  46,  47,  48,  49,  50,  51,  52,  53,  54,  55,  56,
     56,  57,  58,  59,  60,  61,  62,  63,  64,  65,  67,  68,  69,  70,  71,  72,
     73,  74,  75,  76,  78,  79,  80,  81,  82,  83,  85,  86,  87,  88,  89,  91,
     92,  93,  94,  96,  97,  98, 100, 101, 102, 104, 105, 106, 108, 109, 110, 112,
    113, 115, 116, 118, 119, 120, 122, 123, 125, 126, 128, 129, 131, 132, 134, 136,
    137, 139, 140, 142, 143, 145, 147, 148, 150, 152, 153, 155, 157, 158, 160, 162,
    163, 165, 167, 169, 170, 172, 174, 176, 177, 179, 181, 183, 185, 187, 188, 190,
    192, 194, 196, 198, 200, 202, 204, 206, 208, 210, 212, 214, 216, 218, 220, 222,
    224, 226, 228, 230, 232, 234, 236, 238, 240, 242, 245, 247, 249, 251, 253, 255 >>

\* Variant: entry 100 of the table is mistyped as 0
coolWhiteLuminanceTable_Dip ==
  [i \in 1 .. 256 |-> IF i = 100 + 1 THEN 0 ELSE warmWhiteLuminanceTable[i]]

coolWhiteLuminanceTable ==
  <<  0,   0,   0,   1,   1,   1,   1,   1,   1,   1,   1,   1,   1,   1,   1,   1,
      1,   1,   1,   1,   1,   1,   2,   2,   2,   2,   2,   2,   2,   2,   3,   3,
      3,   3,   3,   3,   4,   4,   4,   4,   4,   5,   5,   5,   5,   6,   6,   6,
      6,   7,   7,   7,   7,   8,   8,   8,   9,   9,   9,  10,  10,  10,  11,  11,
     11,  12,  12,  13,  13,  13,  14,  14,  15,  15,  16,  16,  17,  17,  17,  18,
     18,  19,  19,  20,  20,  21,  22,  22,  23,  23,  24,  24,  25,  25,  26,  27,
     27,  28,  29,  29,  30,  30,  31,  32,  32,  33,  34,  35,  35,  36,  37,  37,
     38,  39,  40,  40,  41,  42,  43,  43,  44,  45,  46,  47,  48,  48,  49,  50,
     51,  52,  53,  54,  55,  55,  56,  57,  58,  59,  60,  61,  62,  63,  64,  65,
     66,  67,  68,  69,  70,  71,  72,  73,  74,  75,  76,  77,  79,  80,  81,  82,
     83,  84,  85,  86,  88,  89,  90,  91,  92,  94,  95,  96,  97,  98, 100, 101,
    102, 104, 105, 106, 107, 109, 110, 111, 113, 114, 115, 117, 118, 119, 121, 122,
    124, 125, 127, 128, 129, 131, 132, 134, 135, 137, 138, 140, 141, 143, 144, 146,
    147, 149, 151, 152, 154, 155, 157, 159, 160, 162, 163, 165, 167, 168, 170, 172,
    173, 175, 177, 179, 180, 182, 184, 186, 187, 189, 191, 193, 194, 196, 198, 200,
    202, 204, 205, 207, 209, 211, 213, 215, 217, 219, 221, 223, 225, 227, 229, 230 >>

----------------------------------------------------------------------------
(* Integer widths and the bit test of checkFunc *)

U8(x) == x % 256
U16(x) == x % 65536

RECURSIVE BitAnd(_, _)
BitAnd(a, b) ==
  IF a = 0 \/ b = 0 THEN 0
  ELSE (a % 2) * (b % 2) + 2 * BitAnd(a \div 2, b \div 2)

----------------------------------------------------------------------------
(* The machine a callback works on, and the effects it leaves in the trace *)

\* The EEPROM cells the program reads or writes: one per CV, at the CV's
\* table index, and the function block at the top of the 256 bytes.
EepromCells == CVIndexes \cup (fctsEepromAddress .. 255)

Machine ==
  [eeprom |-> eeprom, cvData |-> cvData, funcCache |-> funcCache,
   factoryDefaultCVIndex |-> factoryDefaultCVIndex, light |-> light,
   trace |-> <<>>]

Effect(m, kind, x, y) == [m EXCEPT !.trace = Append(@, <<kind, x, y>>)]

\* digitalWrite(pin, LOW/HIGH) and analogWrite(pin, duty) on a light pin:
\* megaTinyCore drives the pin LOW for duty 0 and HIGH for duty 255.
digitalWrite(m, lightNr, level) ==
  Effect([m EXCEPT !.light[lightNr] = IF level = 0 THEN 0 ELSE 255],
         "digitalWrite", lightNr, level)

analogWrite(m, lightNr, duty) ==
  Effect([m EXCEPT !.light[lightNr] = duty], "analogWrite", lightNr, duty)

\* The loop "for i < nrCVs: if cvData[i].cvNr == CV": the first index that
\* holds the CV number, nrCVs when the loop runs to its end.
LocateCV(cv, CV) ==
  IF \E i \in CVIndexes : cv[i].cvNr = CV
  THEN CHOOSE i \in CVIndexes :
         /\ cv[i].cvNr = CV
         /\ \A j \in CVIndexes : cv[j].cvNr = CV => i <= j
  ELSE nrCVs

\* The result of a call: none (void), the value of a return statement, or,
\* when control runs off the end of a non-void function without a return
\* statement, an undefined byte (a sample of the bytes).
Void == [kind |-> "void", value |-> 0]
Returned(v) == [kind |-> "value", value |-> v]
UndefinedBytes == {0, 3, 255}
UndefinedReturn == {[kind |-> "undefined", value |-> v] : v \in UndefinedBytes}

----------------------------------------------------------------------------
(* checkFunc and updateLights *)

\* Variant: the bound check leaves out the last function
checkFunc_BoundTooLow(fc, funcNumber) ==
  IF funcNumber < numberOfFunctions - 1
  THEN BitAnd(fc[funcGroup[funcNumber + 1]], funcBitMask[funcNumber + 1]) # 0
  ELSE FALSE

checkFunc(fc, funcNumber) ==
  IF funcNumber < numberOfFunctions
  THEN BitAnd(fc[funcGroup[funcNumber + 1]], funcBitMask[funcNumber + 1]) # 0
  ELSE FALSE

\* Variant: the operands are not cast, the product is kept in 8 bits
warmWhiteLEDBrightness_NoCast(brightness, cct) ==
  U8(U8(brightness * U8(255 - cct)) \div 256)

\* uint8_t level = ((uint16_t)brightness * (255 - (uint16_t)cct)) / 256
warmWhiteLEDBrightness(brightness, cct) == U8(U16(brightness * U16(255 - cct)) \div 256)

\* Variant: the product is divided by 255, so that full cool keeps the brightness
coolWhiteLEDBrightness_Div255(brightness, cct) == U8(U16(brightness * cct) \div 255)

coolWhiteLEDBrightness(brightness, cct) == U8(U16(brightness * cct) \div 256)

\* Variant: set 2 is chosen by its CV alone, whatever the function's state
useSet2_SelectorOnly(cv, fc) == cv[cvLightFctCtrl2].value # 255

\* Whether a second set of parameters is to be used
useSet2(cv, fc) ==
  cv[cvLightFctCtrl2].value # 255 /\ checkFunc(fc, cv[cvLightFctCtrl2].value)

\* The two indexes into the luminance tables, <<warm, cool>>
LightLevels(cv, fc) ==
  IF useSet2(cv, fc)
  THEN << warmWhiteLEDBrightness(cv[cvLightBrightness2].value,
                                 cv[cvLightColorTemperature2].value),
          coolWhiteLEDBrightness(cv[cvLightBrightness2].value,
                                 cv[cvLightColorTemperature2].value) >>
  ELSE << warmWhiteLEDBrightness(cv[cvLightBrightness].value,
                                 cv[cvLightColorTemperature].value),
          coolWhiteLEDBrightness(cv[cvLightBrightness].value,
                                 cv[cvLightColorTemperature].value) >>

\* Variant: the controlling function is not looked at
LightValues_NoFunctionCheck(cv, fc) ==
  IF cv[cvLightTest].value = 0
  THEN << warmWhiteLuminanceTable[LightLevels(cv, fc)[1] + 1],
          coolWhiteLuminanceTable[LightLevels(cv, fc)[2] + 1] >>
  ELSE << cv[cvLightBrightness].value, cv[cvLightColorTemperature].value >>

\* Variant: the test mode writes the raw values of the set in use
LightValues_TestUsesSet2(cv, fc) ==
  IF checkFunc(fc, cv[cvLightFctCtrl].value)
  THEN IF cv[cvLightTest].value = 0
       THEN << warmWhiteLuminanceTable[LightLevels(cv, fc)[1] + 1],
               coolWhiteLuminanceTable[LightLevels(cv, fc)[2] + 1] >>
       ELSE IF useSet2(cv, fc)
            THEN << cv[cvLightBrightness2].value, cv[cvLightColorTemperature2].value >>
            ELSE << cv[cvLightBrightness].value, cv[cvLightColorTemperature].value >>
  ELSE << 0, 0 >>

\* The two duty cycles updateLights() writes, <<warm, cool>>
LightValues(cv, fc) ==
  IF checkFunc(fc, cv[cvLightFctCtrl].value)
  THEN IF cv[cvLightTest].value = 0
       THEN << warmWhiteLuminanceTable[LightLevels(cv, fc)[1] + 1],
               coolWhiteLuminanceTable[LightLevels(cv, fc)[2] + 1] >>
       ELSE << cv[cvLightBrightness].value, cv[cvLightColorTemperature].value >>
  ELSE << 0, 0 >>

\* In normal mode the table index and the value looked up are printed for
\* each light after the two analogWrite calls.
updateLights(m) ==
  LET d  == LightValues(m.cvData, m.funcCache)
      lv == LightLevels(m.cvData, m.funcCache)
      m1 == analogWrite(analogWrite(Effect(m, "updateLights", 0, 0),
                                    warmWhiteLight, d[1]),
                        coolWhiteLight, d[2])
  IN  IF checkFunc(m.funcCache, m.cvData[cvLightFctCtrl].value)
         /\ m.cvData[cvLightTest].value = 0
      THEN Effect(Effect(m1, "warmWhiteLEDBrightness", lv[1], d[1]),
                  "coolWhiteLEDBrightness", lv[2], d[2])
      ELSE m1

----------------------------------------------------------------------------
(* The callbacks *)

notifyServiceMode(m, inServiceMode) ==
  IF inServiceMode
  THEN digitalWrite(digitalWrite(m, warmWhiteLight, 0), coolWhiteLight, 0)
  ELSE updateLights(m)

\* Variant: a request made while a reset is pending is ignored
notifyCVResetFactoryDefault_OnlyWhenIdle(m) ==
  IF m.factoryDefaultCVIndex # 0 THEN m ELSE [m EXCEPT !.factoryDefaultCVIndex = nrCVs]

notifyCVResetFactoryDefault(m) == [m EXCEPT !.factoryDefaultCVIndex = nrCVs]

\* EEPROM.put(fctsEepromAddress, funcCache): the whole array, byte by byte
EepromPutFuncs(e, fc) ==
  [a \in EepromCells |->
     IF a >= fctsEepromAddress THEN fc[a - fctsEepromAddress] ELSE e[a]]

\* Variant: the function states are not stored
notifyDccFunc_NoPut(m, FuncGrp, FuncState) ==
  IF FuncState # m.funcCache[FuncGrp]
  THEN updateLights(Effect([m EXCEPT !.funcCache[FuncGrp] = FuncState],
                           "funcCache", FuncGrp, FuncState))
  ELSE m

\* Variant: the packet is not compared with the cache
notifyDccFunc_NoChangeCheck(m, FuncGrp, FuncState) ==
  LET m1 == Effect([m EXCEPT !.funcCache[FuncGrp] = FuncState],
                   "funcCache", FuncGrp, FuncState)
      m2 == updateLights(m1)
  IN  Effect([m2 EXCEPT !.eeprom = EepromPutFuncs(@, m2.funcCache)],
             "EEPROM.put", fctsEepromAddress, numberOfFunctionGroups)

notifyDccFunc(m, FuncGrp, FuncState) ==
  IF FuncState # m.funcCache[FuncGrp]
  THEN LET m1 == Effect([m EXCEPT !.funcCache[FuncGrp] = FuncState],
                        "funcCache", FuncGrp, FuncState)
           m2 == updateLights(m1)
       IN  Effect([m2 EXCEPT !.eeprom = EepromPutFuncs(@, m2.funcCache)],
                  "EEPROM.put", fctsEepromAddress, numberOfFunctionGroups)
  ELSE m

\* Variant: the Writable argument is ignored
notifyCVValid_IgnoreWritable(cv, CV, Writable) ==
  IF LocateCV(cv, CV) < nrCVs THEN Returned(1) ELSE Returned(0)

notifyCVValid(cv, CV, Writable) ==
  LET i == LocateCV(cv, CV) IN
  IF i < nrCVs
  THEN IF Writable = 0 THEN Returned(1) ELSE Returned(IF cv[i].writable THEN 1 ELSE 0)
  ELSE Returned(0)

\* The results notifyCVRead can give: the cached value of the CV found, and
\* an undefined one when the loop ends without finding the CV.
notifyCVRead(cv, CV) ==
  LET i == LocateCV(cv, CV) IN
  IF i < nrCVs THEN {Returned(cv[i].value)} ELSE UndefinedReturn

\* Variant: the lights are not updated after the write
notifyCVWrite_NoUpdateLights(m, CV, Value) ==
  LET i == LocateCV(m.cvData, CV) IN
  IF i < nrCVs /\ m.cvData[i].value # Value
  THEN LET m1 == Effect([m EXCEPT !.eeprom[i] = Value], "EEPROM.write", i, Value)
       IN  Effect([m1 EXCEPT !.cvData[i].value = Value], "cvData.value", i, Value)
  ELSE m

\* Variant: the byte is stored at the CV number (as NmraDcc itself does), not at the table index
notifyCVWrite_AddressIsCVNumber(m, CV, Value) ==
  LET i == LocateCV(m.cvData, CV)
      a == IF CV \in EepromCells THEN CV ELSE i
  IN
  IF i < nrCVs /\ m.cvData[i].value # Value
  THEN LET m1 == Effect([m EXCEPT !.eeprom[a] = Value], "EEPROM.write", a, Value)
           m2 == Effect([m1 EXCEPT !.cvData[i].value = Value], "cvData.value", i, Value)
       IN  updateLights(m2)
  ELSE m

\* Variant: the new value is not compared with the cached one
notifyCVWrite_NoChangeCheck(m, CV, Value) ==
  LET i == LocateCV(m.cvData, CV) IN
  IF i < nrCVs
  THEN LET m1 == Effect([m EXCEPT !.eeprom[i] = Value], "EEPROM.write", i, Value)
           m2 == Effect([m1 EXCEPT !.cvData[i].value = Value], "cvData.value", i, Value)
       IN  updateLights(m2)
  ELSE m

notifyCVWrite(m, CV, Value) ==
  LET i == LocateCV(m.cvData, CV) IN
  IF i < nrCVs /\ m.cvData[i].value # Value
  THEN LET m1 == Effect([m EXCEPT !.eeprom[i] = Value], "EEPROM.write", i, Value)
           m2 == Effect([m1 EXCEPT !.cvData[i].value = Value], "cvData.value", i, Value)
       IN  updateLights(m2)
  ELSE m

\* The results notifyCVWrite can give: Value for a CV of the table, and an
\* undefined one when the loop ends without finding the CV.
notifyCVWriteReturn(cv, CV, Value) ==
  IF LocateCV(cv, CV) < nrCVs THEN {Returned(Value)} ELSE UndefinedReturn

readCVsToCache(m) ==
  Effect([m EXCEPT !.cvData =
            [i \in CVIndexes |-> [m.cvData[i] EXCEPT !.value = m.eeprom[i]]]],
         "readCVsToCache", 0, nrCVs)

readFuncsToCache(m) ==
  Effect([m EXCEPT !.funcCache =
            [g \in 0 .. (numberOfFunctionGroups - 1) |->
               m.eeprom[fctsEepromAddress + g]]],
         "readFuncsToCache", fctsEepromAddress, numberOfFunctionGroups)

notifyCVAck(m) ==
  LET m1 == digitalWrite(digitalWrite(m, warmWhiteLight, 1), coolWhiteLight, 1)
      m2 == Effect(m1, "delay", 6, 0)
  IN  analogWrite(analogWrite(m2, warmWhiteLight, 0), coolWhiteLight, 0)

\* dcc.setCV(CV, Value) of the library hands the write to notifyCVWrite
setCV(m, CV, Value) == notifyCVWrite(Effect(m, "setCV", CV, Value), CV, Value)

\* dcc.init() with FLAGS_AUTO_FACTORY_DEFAULT: on an unprogrammed EEPROM
\* (manufacturer CVs still 255) the library calls notifyCVResetFactoryDefault
dccInit(m) ==
  IF /\ m.cvData[cvManufacturerVersionNumber].value = 255
     /\ m.cvData[cvManufacturerIDNumber].value = 255
  THEN notifyCVResetFactoryDefault(m)
  ELSE m

\* Variant: the lights are set before the caches are loaded
setup_RenderFirst(m) ==
  LET m1 == analogWrite(analogWrite(m, warmWhiteLight, 0), coolWhiteLight, 0)
      m2 == updateLights(dccInit(m1))
  IN  readCVsToCache(readFuncsToCache(m2))

setup(m) ==
  LET m1 == analogWrite(analogWrite(m, warmWhiteLight, 0), coolWhiteLight, 0)
      m2 == readCVsToCache(readFuncsToCache(m1))
  IN  updateLights(dccInit(m2))

\* Variant: the default is applied to every CV, whatever its applyDefault
loopFactoryDefault_AllCVs(m, isSetCVReady) ==
  IF m.factoryDefaultCVIndex # 0 /\ isSetCVReady
  THEN LET k  == m.factoryDefaultCVIndex - 1
           m1 == [m EXCEPT !.factoryDefaultCVIndex = k]
       IN  notifyCVWrite(Effect(m1, "setCV", m1.cvData[k].cvNr, m1.cvData[k].defaultValue),
                         m1.cvData[k].cvNr, m1.cvData[k].defaultValue)
  ELSE m

\* Variant: a pass handles two pending CVs instead of one
loopFactoryDefault_TwoPerPass(m, isSetCVReady) ==
  LET pass(x) ==
        IF x.factoryDefaultCVIndex # 0 /\ isSetCVReady
        THEN LET k  == x.factoryDefaultCVIndex - 1
                 x1 == [x EXCEPT !.factoryDefaultCVIndex = k]
             IN  IF x1.cvData[k].applyDefault
                 THEN notifyCVWrite(Effect(x1, "setCV", x1.cvData[k].cvNr,
                                           x1.cvData[k].defaultValue),
                                    x1.cvData[k].cvNr, x1.cvData[k].defaultValue)
                 ELSE x1
        ELSE x
  IN  pass(pass(m))

\* Variant: the step does not wait for dcc.isSetCVReady()
loopFactoryDefault_IgnoreReady(m, isSetCVReady) ==
  IF m.factoryDefaultCVIndex # 0
  THEN LET k  == m.factoryDefaultCVIndex - 1
           m1 == [m EXCEPT !.factoryDefaultCVIndex = k]
       IN  IF m1.cvData[k].applyDefault
           THEN notifyCVWrite(Effect(m1, "setCV", m1.cvData[k].cvNr, m1.cvData[k].defaultValue),
                              m1.cvData[k].cvNr, m1.cvData[k].defaultValue)
           ELSE m1
  ELSE m

\* The factory-reset part of loop(), with the answer of dcc.isSetCVReady()
\* Variant: the index is decremented only when a default is applied
loopFactoryDefault_DecrementOnApply(m, isSetCVReady) ==
  IF m.factoryDefaultCVIndex # 0 /\ isSetCVReady
  THEN LET k == m.factoryDefaultCVIndex - 1
       IN  IF m.cvData[k].applyDefault
           THEN setCV([m EXCEPT !.factoryDefaultCVIndex = k],
                      m.cvData[k].cvNr, m.cvData[k].defaultValue)
           ELSE m
  ELSE m

loopFactoryDefault(m, isSetCVReady) ==
  IF m.factoryDefaultCVIndex # 0 /\ isSetCVReady
  THEN LET k  == m.factoryDefaultCVIndex - 1
           m1 == [m EXCEPT !.factoryDefaultCVIndex = k]
       IN  IF m1.cvData[k].applyDefault
           THEN setCV(m1, m1.cvData[k].cvNr, m1.cvData[k].defaultValue)
           ELSE m1
  ELSE m

----------------------------------------------------------------------------
(* Inputs *)

\* CV numbers of the protocol's requests: writable CVs at the first, a middle
\* and the last table index, a read-only CV, and a number that is not in the table.
CVNumbers == {1, 8, 1000, 1002, 1010, 2}

\* Values of the protocol's write requests.
CVValues == {0, 255}

\* Function packets: the groups of F0-F4 and F13-F20, with no bit or the lowest bit set.
FuncGroups == {FN_0_4, FN_13_20}
FuncStates == {0, 1}

EepromImage(cvs, funcs) ==
  [a \in EepromCells |->
     IF a < nrCVs THEN cvs[a + 1] ELSE funcs[a - fctsEepromAddress + 1]]

\* EEPROM contents at power on: never programmed (all 0xFF), and a
\* configuration with both parameter sets selected (F0 and F3 on).
EepromImages ==
  { EepromImage([i \in 1 .. nrCVs |-> 255], [g \in 1 .. numberOfFunctionGroups |-> 255]),
    EepromImage(<<5, 1, 13, 192, 100, 0, 34, 200, 128, 0, 100, 0, 3, 0>>,
                <<0, 20, 0, 0, 0, 0>>) }

----------------------------------------------------------------------------
(* The state machine *)

\* The record of a callback: its name and arguments, its result, the
\* factoryDefaultCVIndex it started from and its effects in order
Op(name, a, b, r, m) ==
  [op |-> name, arg1 |-> a, arg2 |-> b, result |-> r.kind, ret |-> r.value,
   index |-> factoryDefaultCVIndex, trace |-> m.trace]

NoRun == [active |-> FALSE, pre |-> [i \in CVIndexes |-> 0], steps |-> 0]

\* The callback leaves the machine as m
Commit(m) ==
  /\ eeprom' = m.eeprom
  /\ cvValue' = [i \in CVIndexes |-> m.cvData[i].value]
  /\ funcCache' = m.funcCache
  /\ factoryDefaultCVIndex' = m.factoryDefaultCVIndex
  /\ light' = m.light

\* Every callback the protocol layer makes counts against MaxEvents
Budget ==
  /\ nEvents < MaxEvents
  /\ nEvents' = nEvents + 1

Init ==
  /\ pc = "boot"
  /\ eeprom \in EepromImages
  /\ cvValue = [i \in CVIndexes |-> cvDataInit[i + 1].value]
  /\ funcCache = [g \in 0 .. (numberOfFunctionGroups - 1) |-> 0]
  /\ factoryDefaultCVIndex = 0
  /\ light = [l \in 0 .. (numberOfLights - 1) |-> 0]
  /\ lastOp = [op |-> "none", arg1 |-> 0, arg2 |-> 0, result |-> "void", ret |-> 0,
               index |-> 0, trace |-> <<>>]
  /\ resetRun = NoRun
  /\ nEvents = 0

Setup ==
  /\ pc = "boot"
  /\ pc' = "run"
  /\ LET m == setup(Machine) IN
       /\ Commit(m)
       /\ lastOp' = Op("setup", 0, 0, Void, m)
       /\ resetRun' = IF m.factoryDefaultCVIndex # 0
                      THEN [active |-> TRUE, pre |-> [i \in CVIndexes |-> m.cvData[i].value],
                            steps |-> 0]
                      ELSE NoRun
  /\ UNCHANGED nEvents

CVValid ==
  /\ pc = "run"
  /\ Budget
  /\ \E CV \in CVNumbers, Writable \in {0, 1} :
       lastOp' = Op("notifyCVValid", CV, Writable, notifyCVValid(cvData, CV, Writable), Machine)
  /\ resetRun' = NoRun
  /\ UNCHANGED <<pc, eeprom, cvValue, funcCache, factoryDefaultCVIndex, light>>

CVRead ==
  /\ pc = "run"
  /\ Budget
  /\ \E CV \in CVNumbers :
       \E r \in notifyCVRead(cvData, CV) :
         lastOp' = Op("notifyCVRead", CV, 0, r, Machine)
  /\ resetRun' = NoRun
  /\ UNCHANGED <<pc, eeprom, cvValue, funcCache, factoryDefaultCVIndex, light>>

CVWrite ==
  /\ pc = "run"
  /\ Budget
  /\ \E CV \in CVNumbers, Value \in CVValues :
       LET m == notifyCVWrite(Machine, CV, Value) IN
         /\ Commit(m)
         /\ \E r \in notifyCVWriteReturn(cvData, CV, Value) :
              lastOp' = Op("notifyCVWrite", CV, Value, r, m)
  /\ resetRun' = NoRun
  /\ UNCHANGED pc

DccFunc ==
  /\ pc = "run"
  /\ Budget
  /\ \E FuncGrp \in FuncGroups, FuncState \in FuncStates :
       LET m == notifyDccFunc(Machine, FuncGrp, FuncState) IN
         /\ Commit(m)
         /\ lastOp' = Op("notifyDccFunc", FuncGrp, FuncState, Void, m)
  /\ resetRun' = NoRun
  /\ UNCHANGED pc

ServiceMode ==
  /\ pc = "run"
  /\ Budget
  /\ \E inServiceMode \in BOOLEAN :
       LET m == notifyServiceMode(Machine, inServiceMode) IN
         /\ Commit(m)
         /\ lastOp' = Op("notifyServiceMode", IF inServiceMode THEN 1 ELSE 0, 0, Void, m)
  /\ resetRun' = NoRun
  /\ UNCHANGED pc

CVAck ==
  /\ pc = "run"
  /\ Budget
  /\ LET m == notifyCVAck(Machine) IN
       /\ Commit(m)
       /\ lastOp' = Op("notifyCVAck", 0, 0, Void, m)
  /\ resetRun' = NoRun
  /\ UNCHANGED pc

CVResetFactoryDefault ==
  /\ pc = "run"
  /\ Budget
  /\ LET m == notifyCVResetFactoryDefault(Machine) IN
       /\ Commit(m)
       /\ lastOp' = Op("notifyCVResetFactoryDefault", 0, 0, Void, m)
  /\ resetRun' = [active |-> TRUE, pre |-> [i \in CVIndexes |-> cvData[i].value], steps |-> 0]
  /\ UNCHANGED pc

\* One pass of loop() after dcc.process(): the factory-reset step
Loop ==
  /\ pc = "run"
  /\ \E isSetCVReady \in BOOLEAN :
       LET m == loopFactoryDefault(Machine, isSetCVReady) IN
         /\ Commit(m)
         /\ lastOp' = Op("loop", IF isSetCVReady THEN 1 ELSE 0, 0, Void, m)
         /\ resetRun' = IF resetRun.active /\ isSetCVReady /\ factoryDefaultCVIndex # 0
                        THEN [resetRun EXCEPT !.steps = IF @ < nrCVs THEN @ + 1 ELSE @]
                        ELSE resetRun
  /\ UNCHANGED <<pc, nEvents>>

\* The decoder on the track: packets, service mode, reset requests and loop()
Next ==
  \/ Setup
  \/ CVWrite
  \/ DccFunc
  \/ ServiceMode
  \/ CVAck
  \/ CVResetFactoryDefault
  \/ Loop

Spec == Init /\ [][Next]_vars

\* A pass of loop() that finds the library ready for a CV write
LoopReady ==
  /\ pc = "run"
  /\ factoryDefaultCVIndex # 0
  /\ \E m \in {loopFactoryDefault(Machine, TRUE)} :
       /\ Commit(m)
       /\ lastOp' = Op("loop", 1, 0, Void, m)
       /\ resetRun' = IF resetRun.active
                      THEN [resetRun EXCEPT !.steps = IF @ < nrCVs THEN @ + 1 ELSE @]
                      ELSE resetRun
  /\ UNCHANGED <<pc, nEvents>>

\* loop() runs again and again, and the library is ready for a CV write
\* again and again: a ready pass is not put off for ever. This is
\* WF_vars(LoopReady) with ENABLED <<LoopReady>>_vars written out: a ready
\* pass can be taken, and changes factoryDefaultCVIndex, exactly when the
\* decoder runs with a reset pending.
LoopReadyEnabled == pc = "run" /\ factoryDefaultCVIndex # 0
LoopFairness == []<>(~LoopReadyEnabled) \/ []<><<LoopReady>>_vars

\* Reset requests, CV writes and function packets between the passes of loop()
NextFair ==
  \/ Setup
  \/ CVWrite
  \/ DccFunc
  \/ CVResetFactoryDefault
  \/ Loop

SpecFair == Init /\ [][NextFair]_vars /\ LoopFairness

\* The CV accesses of the protocol layer alone
NextCV ==
  \/ Setup
  \/ CVValid
  \/ CVRead
  \/ CVWrite

SpecCV == Init /\ [][NextCV]_vars

----------------------------------------------------------------------------
(* checkFunc on its own *)

Bytes == 0 .. 255

\* The CVs of a configured decoder (both parameter sets selected)
ConfiguredCVs == <<5, 1, 13, 192, 100, 0, 34, 200, 128, 0, 100, 0, 3, 0>>

\* EEPROM contents whose function block holds every byte in one group, with
\* the other groups all off or all on
FuncImages ==
  { EepromImage(ConfiguredCVs,
                [g \in 1 .. numberOfFunctionGroups |-> IF g - 1 = grp THEN b ELSE rest]) :
      grp \in FN_0_4 .. FN_21_28, b \in Bytes, rest \in {0, 255} }

\* Function numbers asked for: all functions, and numbers past the last one
FuncNumbers == (0 .. (numberOfFunctions - 1)) \cup {numberOfFunctions, 30, 255}

InitFunc ==
  /\ pc = "boot"
  /\ eeprom \in FuncImages
  /\ cvValue = [i \in CVIndexes |-> cvDataInit[i + 1].value]
  /\ funcCache = [g \in 0 .. (numberOfFunctionGroups - 1) |-> 0]
  /\ factoryDefaultCVIndex = 0
  /\ light = [l \in 0 .. (numberOfLights - 1) |-> 0]
  /\ lastOp = [op |-> "none", arg1 |-> 0, arg2 |-> 0, result |-> "void", ret |-> 0,
               index |-> 0, trace |-> <<>>]
  /\ resetRun = NoRun
  /\ nEvents = 0

\* checkFunc(funcNumber) applied to the function cache as it stands
CheckFunc ==
  /\ pc = "run"
  /\ \E funcNumber \in FuncNumbers :
       lastOp' = Op("checkFunc", funcNumber, 0,
                    Returned(IF checkFunc(funcCache, funcNumber) THEN 1 ELSE 0), Machine)
  /\ UNCHANGED <<pc, eeprom, cvValue, funcCache, factoryDefaultCVIndex, light,
                 resetRun, nEvents>>

NextFunc ==
  \/ Setup
  \/ CheckFunc

SpecFunc == InitFunc /\ [][NextFunc]_vars

----------------------------------------------------------------------------
(* updateLights over the configurations *)

\* Values of the CVs of the two parameter sets: brightness and colour
\* temperature of each set, the two controlling functions (a function of
\* each group in use, the first number past the last function, and 255)
\* and the test mode.
Brightnesses == {50, 200}
ColorTemperatures == {128, 255}
FctCtrls == {0, 1, 28, numberOfFunctions, 255}
Brightnesses2 == {30}
ColorTemperatures2 == {0, 255}
FctCtrls2 == {3, 20, numberOfFunctions, 255}
LightTests == {0, 1, 255}

\* Saved function states: F0 and F1, F3, F20, F28, each on or off
FuncBytes0_4 == {0, 17, 4, 21}
FuncBytes13_20 == {0, 128}
FuncBytes21_28 == {0, 128}

RenderImages ==
  { EepromImage(<<5, 1, 13, 192, 100, 0, 34, b, c, sel, b2, c2, sel2, test>>,
                <<0, g1, 0, 0, g4, g5>>) :
      b \in Brightnesses, c \in ColorTemperatures, sel \in FctCtrls,
      b2 \in Brightnesses2, c2 \in ColorTemperatures2, sel2 \in FctCtrls2,
      test \in LightTests,
      g1 \in FuncBytes0_4, g4 \in FuncBytes13_20, g5 \in FuncBytes21_28 }

InitRender ==
  /\ pc = "boot"
  /\ eeprom \in RenderImages
  /\ cvValue = [i \in CVIndexes |-> cvDataInit[i + 1].value]
  /\ funcCache = [g \in 0 .. (numberOfFunctionGroups - 1) |-> 0]
  /\ factoryDefaultCVIndex = 0
  /\ light = [l \in 0 .. (numberOfLights - 1) |-> 0]
  /\ lastOp = [op |-> "none", arg1 |-> 0, arg2 |-> 0, result |-> "void", ret |-> 0,
               index |-> 0, trace |-> <<>>]
  /\ resetRun = NoRun
  /\ nEvents = 0

NextRender == Setup \/ ServiceMode
SpecRender == InitRender /\ [][NextRender]_vars

----------------------------------------------------------------------------
(* updateLights over every brightness and colour temperature *)

\* Configurations with F0 and F3 on and the test mode off: the pair (b, c)
\* as the primary pair with the second set unused, or as the second pair
\* with the second set selected by F3.
LevelImage(b, c, set2) ==
  IF set2
  THEN EepromImage(<<5, 1, 13, 192, 100, 0, 34, 200, 128, 0, b, c, 3, 0>>,
                   <<0, 20, 0, 0, 0, 0>>)
  ELSE EepromImage(<<5, 1, 13, 192, 100, 0, 34, b, c, 0, 30, 0, 255, 0>>,
                   <<0, 20, 0, 0, 0, 0>>)

InitLevels ==
  /\ pc = "boot"
  /\ \E b \in Bytes, c \in Bytes, set2 \in BOOLEAN : eeprom = LevelImage(b, c, set2)
  /\ cvValue = [i \in CVIndexes |-> cvDataInit[i + 1].value]
  /\ funcCache = [g \in 0 .. (numberOfFunctionGroups - 1) |-> 0]
  /\ factoryDefaultCVIndex = 0
  /\ light = [l \in 0 .. (numberOfLights - 1) |-> 0]
  /\ lastOp = [op |-> "none", arg1 |-> 0, arg2 |-> 0, result |-> "void", ret |-> 0,
               index |-> 0, trace |-> <<>>]
  /\ resetRun = NoRun
  /\ nEvents = 0

NextLevels == Setup
SpecLevels == InitLevels /\ [][NextLevels]_vars

----------------------------------------------------------------------------
(* Vocabulary of the properties *)

Effects(tr, kinds) == SelectSeq(tr, LAMBDA e : e[1] \in kinds)

\* The calls of an event that store to the EEPROM, and its calls of updateLights
PersistCalls(tr) == Effects(tr, {"EEPROM.write", "EEPROM.put"})
RenderCalls(tr) == Effects(tr, {"updateLights"})
SetCVCalls(tr) == Effects(tr, {"setCV"})

Lights == <<light[warmWhiteLight], light[coolWhiteLight]>>
LightsOff == [l \in 0 .. (numberOfLights - 1) |-> 0]

\* The table index of the CV the last operation names, nrCVs if it is unknown
IndexOfCV(CV) == LocateCV(cvData, CV)

----------------------------------------------------------------------------
(* C1: light outputs and the committed state *)

\* C1 (as claimed): after every finished event the two light outputs equal
\* what updateLights() computes from the current CV cache and function cache.
C1_LightsAlwaysRendered ==
  pc = "run" => Lights = LightValues(cvData, funcCache)

C1_Step ==
  LET op       == lastOp'
      rendered == RenderCalls(op.trace) # <<>>
      off      == \/ op.op = "notifyCVAck"
                  \/ (op.op = "notifyServiceMode" /\ op.arg1 = 1)
  IN  /\ (cvData' # cvData \/ funcCache' # funcCache) => rendered
      /\ (op.op = "setup" \/ (op.op = "notifyServiceMode" /\ op.arg1 = 0)) => rendered
      /\ rendered => <<light'[warmWhiteLight], light'[coolWhiteLight]>>
                       = LightValues(cvData', funcCache')
      /\ off => light' = LightsOff
      /\ (~rendered /\ ~off) => light' = light

\* C1 (amended): every event that changes the CV cache or the function cache,
\* startup and the exit from service mode end with the outputs equal to what
\* updateLights() computes from the current caches; an acknowledge pulse and
\* the entry into service mode end with both outputs at 0; every other event
\* leaves the outputs as they were.
C1_LightsAfterEvent == [][C1_Step]_vars

\* A CV write has just re-rendered the lights to a level that is not off
C1_Witness ==
  /\ lastOp.op = "notifyCVWrite"
  /\ RenderCalls(lastOp.trace) # <<>>
  /\ Lights = LightValues(cvData, funcCache)
  /\ Lights # <<0, 0>>

----------------------------------------------------------------------------
(* C2 - C6: the CV callbacks *)

C2_Step ==
  LET op == lastOp'
      i  == IndexOfCV(op.arg1)
      v  == op.arg2
  IN  (/\ op.op = "notifyCVWrite"
       /\ i < nrCVs
       /\ cvData[i].writable
       /\ cvData[i].value # v)
      => /\ PersistCalls(op.trace) = << <<"EEPROM.write", i, v>> >>
         /\ eeprom' = [eeprom EXCEPT ![i] = v]
         /\ cvData' = [cvData EXCEPT ![i].value = v]
         /\ notifyCVRead(cvData', op.arg1) = {Returned(v)}
         /\ Len(RenderCalls(op.trace)) = 1
         /\ op.result = "value" /\ op.ret = v

C3_Step ==
  LET op == lastOp'
      i  == IndexOfCV(op.arg1)
  IN  /\ (/\ op.op = "notifyCVWrite"
          /\ i < nrCVs
          /\ cvData[i].value = op.arg2)
         => /\ op.trace = <<>>
            /\ UNCHANGED <<eeprom, cvData, funcCache, factoryDefaultCVIndex, light>>
      /\ (/\ op.op = "notifyCVWrite"
          /\ lastOp.op = "notifyCVWrite"
          /\ i < nrCVs
          /\ op.arg1 = lastOp.arg1
          /\ op.arg2 = lastOp.arg2)
         => op.trace = <<>>

\* C3: a write of the value a known CV already holds stores nothing,
\* re-renders nothing and changes no state; so the second of two equal
\* writes in a row does nothing.
C3_WriteSameValue == [][C3_Step]_vars

\* The value a known CV already held was written to it
C3_Witness ==
  /\ lastOp.op = "notifyCVWrite"
  /\ IndexOfCV(lastOp.arg1) < nrCVs
  /\ cvData[IndexOfCV(lastOp.arg1)].value = lastOp.arg2
  /\ lastOp.trace = <<>>

\* C4 (as claimed): a write to a CV of the table that is not writable is
\* rejected: nothing is stored, cached or re-rendered.
C4_ReadOnlyWriteRejected ==
  (/\ lastOp.op = "notifyCVWrite"
   /\ IndexOfCV(lastOp.arg1) < nrCVs
   /\ ~cvData[IndexOfCV(lastOp.arg1)].writable)
  => lastOp.trace = <<>>

\* C5 (as claimed): a read or a write of a CV number that is not in the
\* table gives a defined result and changes nothing.
C5_UnknownCVReported ==
  (/\ lastOp.op \in {"notifyCVRead", "notifyCVWrite"}
   /\ IndexOfCV(lastOp.arg1) = nrCVs)
  => /\ lastOp.result = "value"
     /\ lastOp.trace = <<>>

C6_Step ==
  LET op == lastOp' IN
  op.op = "notifyCVValid"
  => /\ op.result = "value"
     /\ op.ret \in {0, 1}
     /\ op.ret = 1 <=> \E i \in CVIndexes :
                         /\ cvData[i].cvNr = op.arg1
                         /\ (op.arg2 # 0 => cvData[i].writable)
     /\ UNCHANGED <<eeprom, cvData, funcCache, factoryDefaultCVIndex, light>>

\* C6: notifyCVValid answers 1 exactly when the number is the CV number of a
\* table record that, if Writable is set, is writable, and changes no state.
C6_ValidExact == [][C6_Step]_vars

\* A CV of the table was found not valid for writing
C6_Witness ==
  /\ lastOp.op = "notifyCVValid"
  /\ lastOp.arg2 = 1
  /\ IndexOfCV(lastOp.arg1) < nrCVs
  /\ lastOp.ret = 0

----------------------------------------------------------------------------
(* C7 - C10: the factory reset *)

\* C7: after a reset request followed by exactly nrCVs ready passes of
\* loop(), with no other event in between, every CV with applyDefault holds
\* its default value and every other CV holds the value it had at the request.
C7_ResetRestoresDefaults ==
  (resetRun.active /\ resetRun.steps = nrCVs)
  => \A i \in CVIndexes :
       cvData[i].value = IF cvData[i].applyDefault
                         THEN cvData[i].defaultValue
                         ELSE resetRun.pre[i]

\* A reset has run to its end from values that were not the defaults, with a
\* CV that keeps its value over the reset
C7_Witness ==
  /\ resetRun.active
  /\ resetRun.steps = nrCVs
  /\ factoryDefaultCVIndex = 0
  /\ \E i \in CVIndexes :
       cvData[i].applyDefault /\ resetRun.pre[i] # cvData[i].defaultValue
  /\ \E i \in CVIndexes :
       ~cvData[i].applyDefault /\ resetRun.pre[i] # cvData[i].defaultValue

C8_Step ==
  LET op == lastOp'
      k  == factoryDefaultCVIndex
  IN  /\ k \in 0 .. nrCVs
      /\ factoryDefaultCVIndex' \in 0 .. nrCVs
      /\ (op.op = "notifyCVResetFactoryDefault" /\ k = 0)
         => factoryDefaultCVIndex' = nrCVs
      /\ (op.op = "loop" /\ op.arg1 = 1 /\ k > 0)
         => factoryDefaultCVIndex' = k - 1
      /\ (op.op = "loop" /\ (op.arg1 = 0 \/ k = 0))
         => /\ op.trace = <<>>
            /\ UNCHANGED <<factoryDefaultCVIndex, cvData, eeprom, funcCache, light>>
      /\ op.op \notin {"notifyCVResetFactoryDefault", "loop", "setup"}
         => factoryDefaultCVIndex' = k

\* C8: the pending counter stays within 0..nrCVs; a reset request while idle
\* sets it to nrCVs; a ready pass of loop() takes k > 0 to k - 1; a pass that
\* is not ready, or made while idle, changes neither the counter nor any CV,
\* EEPROM byte or light output; no other callback changes the counter.
C8_ResetStateMachine == [][C8_Step]_vars

\* The last pending CV was just handled: Pending(1) went to Idle
C8_Witness ==
  /\ lastOp.op = "loop"
  /\ lastOp.arg1 = 1
  /\ lastOp.index = 1
  /\ factoryDefaultCVIndex = 0

\* C9 (as claimed): a reset request made while a reset is pending leaves the
\* pending counter as it was.
C9_RequestKeepsPending ==
  (lastOp.op = "notifyCVResetFactoryDefault" /\ lastOp.index > 0)
  => factoryDefaultCVIndex = lastOp.index

C9_Step ==
  LET op == lastOp' IN
  (op.op = "notifyCVResetFactoryDefault" /\ factoryDefaultCVIndex > 0)
  => /\ factoryDefaultCVIndex' = nrCVs
     /\ op.trace = <<>>
     /\ UNCHANGED <<cvData, eeprom, funcCache, light>>

\* C9 (amended): a reset request made while a reset is pending with k CVs
\* left sets the pending counter back to nrCVs, so the reset starts over; it
\* leaves the counter as it was only for k = nrCVs, and changes nothing else.
C9_RequestRearms == [][C9_Step]_vars

\* A reset request arrived after some CVs of a pending reset were handled
C9_Witness ==
  /\ lastOp.op = "notifyCVResetFactoryDefault"
  /\ lastOp.index > 0
  /\ lastOp.index < nrCVs
  /\ factoryDefaultCVIndex = nrCVs

C10_Step ==
  LET op  == lastOp'
      k   == factoryDefaultCVIndex
      rec == cvData[k - 1]
      new == rec.applyDefault /\ rec.value # rec.defaultValue
  IN  (op.op = "loop" /\ op.arg1 = 1 /\ k > 0)
      => /\ SetCVCalls(op.trace) =
              IF rec.applyDefault
              THEN << <<"setCV", rec.cvNr, rec.defaultValue>> >>
              ELSE <<>>
         /\ \A i \in CVIndexes \ {k - 1} : cvData'[i] = cvData[i]
         /\ new => /\ PersistCalls(op.trace) = << <<"EEPROM.write", k - 1, rec.defaultValue>> >>
                   /\ eeprom' = [eeprom EXCEPT ![k - 1] = rec.defaultValue]
                   /\ cvData'[k - 1].value = rec.defaultValue
                   /\ Len(RenderCalls(op.trace)) = 1
         /\ ~new => /\ PersistCalls(op.trace) = <<>>
                    /\ RenderCalls(op.trace) = <<>>
                    /\ UNCHANGED <<cvData, eeprom, funcCache, light>>

\* C10: a ready pass of loop() with k CVs pending hands at most one CV to
\* setCV: the default of the record at index k - 1, and only if that record
\* has applyDefault; no other record changes; the write is stored and
\* re-rendered once if the record held another value, and not at all if it
\* already held its default.
C10_OneWritePerPass == [][C10_Step]_vars

\* A pass handed a CV to setCV that already held its default: nothing was stored
C10_Witness ==
  /\ lastOp.op = "loop"
  /\ lastOp.arg1 = 1
  /\ lastOp.index > 0
  /\ SetCVCalls(lastOp.trace) # <<>>
  /\ PersistCalls(lastOp.trace) = <<>>

----------------------------------------------------------------------------
(* C11: function packets *)

C11_Step ==
  LET op   == lastOp'
      g    == op.arg1
      bits == op.arg2
  IN  op.op = "notifyDccFunc"
      => /\ bits = funcCache[g]
            => /\ op.trace = <<>>
               /\ UNCHANGED <<eeprom, cvData, funcCache, factoryDefaultCVIndex, light>>
         /\ bits # funcCache[g]
            => /\ funcCache' = [funcCache EXCEPT ![g] = bits]
               /\ PersistCalls(op.trace) =
                    << <<"EEPROM.put", fctsEepromAddress, numberOfFunctionGroups>> >>
               /\ \A a \in EepromCells :
                    eeprom'[a] = IF a >= fctsEepromAddress
                                 THEN funcCache'[a - fctsEepromAddress]
                                 ELSE eeprom[a]
               /\ Len(RenderCalls(op.trace)) = 1
               /\ UNCHANGED <<cvData, factoryDefaultCVIndex>>

\* C11: a function packet whose bits equal the cached bits of its group
\* stores nothing, re-renders nothing and changes no state; a packet with
\* other bits changes the cached bits of that group only, writes the whole
\* function cache to the EEPROM as one block and re-renders once.
C11_FuncChangeDetection == [][C11_Step]_vars

\* A packet with new bits for one group was stored
C11_Witness ==
  /\ lastOp.op = "notifyDccFunc"
  /\ funcCache[lastOp.arg1] = lastOp.arg2
  /\ PersistCalls(lastOp.trace) # <<>>
  /\ \E g \in FuncGroups : g # lastOp.arg1 /\ funcCache[g] # lastOp.arg2

----------------------------------------------------------------------------
(* C12: checkFunc *)

\* The group that carries function f and the bit of f in the group's byte,
\* as the DCC function packets lay them out: F0 is bit 4 and F1-F4 bits 0-3
\* of the first group, F5-F8 and F9-F12 bits 0-3, F13-F20 and F21-F28 bits 0-7
OwnerGroup(f) ==
  IF f <= 4 THEN FN_0_4
  ELSE IF f <= 8 THEN FN_5_8
  ELSE IF f <= 12 THEN FN_9_12
  ELSE IF f <= 20 THEN FN_13_20
  ELSE FN_21_28

OwnerBit(f) ==
  IF f = 0 THEN 4
  ELSE IF f <= 4 THEN f - 1
  ELSE IF f <= 8 THEN f - 5
  ELSE IF f <= 12 THEN f - 9
  ELSE IF f <= 20 THEN f - 13
  ELSE f - 21

BitIsSet(byte, bit) == (byte \div (2 ^ bit)) % 2 = 1

\* C12: checkFunc answers false for every function number >= 29; for a
\* number in 0..28 it answers true exactly when the function's own bit is set
\* in the cached byte of the group that carries it, whatever the other bits are.
C12_CheckFunc ==
  lastOp.op = "checkFunc"
  => /\ lastOp.ret \in {0, 1}
     /\ lastOp.arg1 >= numberOfFunctions => lastOp.ret = 0
     /\ lastOp.arg1 < numberOfFunctions
        => (lastOp.ret = 1 <=>
              BitIsSet(funcCache[OwnerGroup(lastOp.arg1)], OwnerBit(lastOp.arg1)))

\* The last function was found active in a byte that has other bits set and clear
C12_Witness ==
  /\ lastOp.op = "checkFunc"
  /\ lastOp.arg1 = numberOfFunctions - 1
  /\ lastOp.ret = 1
  /\ funcCache[FN_21_28] \notin {128, 255}

----------------------------------------------------------------------------
(* C13, C14, C15: what updateLights writes *)

\* The last operation ended with updateLights: the lights are what it wrote
Rendered ==
  \/ lastOp.op = "setup"
  \/ lastOp.op = "notifyServiceMode" /\ lastOp.arg1 = 0

\* Function f is on in the cached function states
FunctionActive(f) ==
  f < numberOfFunctions /\ BitIsSet(funcCache[OwnerGroup(f)], OwnerBit(f))

PrimaryActive == FunctionActive(cvValue[cvLightFctCtrl])
SecondaryActive ==
  cvValue[cvLightFctCtrl2] # 255 /\ FunctionActive(cvValue[cvLightFctCtrl2])
TestMode == cvValue[cvLightTest] # 0

PrimaryPair == <<cvValue[cvLightBrightness], cvValue[cvLightColorTemperature]>>
SecondaryPair == <<cvValue[cvLightBrightness2], cvValue[cvLightColorTemperature2]>>

\* The duty cycles of a brightness and colour temperature pair, in integers
GammaPair(p) ==
  << warmWhiteLuminanceTable[((p[1] * (255 - p[2])) \div 256) + 1],
     coolWhiteLuminanceTable[((p[1] * p[2]) \div 256) + 1] >>

\* C13: whenever the function the primary function-control CV selects is not
\* active (a selector of 29 or more included), updateLights writes (0, 0),
\* whatever the brightness, colour temperature, second selector, second set
\* and test mode are.
C13_InactiveIsDark == (Rendered /\ ~PrimaryActive) => Lights = <<0, 0>>

\* The function selected is off while the test mode is on with non-zero raw
\* values and the second set's function is on
C13_Witness ==
  /\ Rendered
  /\ cvValue[cvLightFctCtrl] < numberOfFunctions
  /\ ~PrimaryActive
  /\ TestMode
  /\ SecondaryActive
  /\ Lights = <<0, 0>>

\* C14 as stated: with the primary function active the second pair is in use
\* exactly when the second selector is not 255 and its function is active, and
\* the primary pair in every other case -- a pair being in use when the lights
\* show it, through the tables or raw.
C14_SecondaryIffActive ==
  (Rendered /\ PrimaryActive)
  => IF SecondaryActive
     THEN Lights \in {GammaPair(SecondaryPair), SecondaryPair}
     ELSE Lights \in {GammaPair(PrimaryPair), PrimaryPair}

\* C14: with the primary function active and the test mode off, the lights
\* show the second pair exactly when the second selector is not 255 and its
\* function is active, and the primary pair in every other case.
C14_SecondaryIffActiveNormalMode ==
  (Rendered /\ PrimaryActive /\ ~TestMode)
  => Lights = IF SecondaryActive THEN GammaPair(SecondaryPair)
                                 ELSE GammaPair(PrimaryPair)

\* Selector 3 with F3 on and the primary function on: the second pair shows,
\* and it differs from what the primary pair would give
C14_Witness ==
  /\ Rendered
  /\ PrimaryActive
  /\ ~TestMode
  /\ cvValue[cvLightFctCtrl2] = 3
  /\ SecondaryActive
  /\ Lights = GammaPair(SecondaryPair)
  /\ GammaPair(SecondaryPair) # GammaPair(PrimaryPair)

\* C15: with the primary function active and the test-mode CV not zero, the
\* warm light gets the raw value of the primary brightness CV and the cool
\* light the raw value of the primary colour temperature CV, whatever the
\* second selector and second set are.
C15_TestModeRaw == (Rendered /\ PrimaryActive /\ TestMode) => Lights = PrimaryPair

\* Test mode with the second set's function on: the raw primary values show,
\* and they are neither pair's table values nor the second set's raw values
C15_Witness ==
  /\ Rendered
  /\ PrimaryActive
  /\ TestMode
  /\ SecondaryActive
  /\ Lights = PrimaryPair
  /\ PrimaryPair \notin {GammaPair(PrimaryPair), GammaPair(SecondaryPair), SecondaryPair}

----------------------------------------------------------------------------
(* C16: the levels *)

\* The pair in use in normal mode
SelectedPair == IF SecondaryActive THEN SecondaryPair ELSE PrimaryPair

\* The two table indexes the last updateLights printed, <<warm, cool>>
LevelEffects ==
  Effects(lastOp.trace, {"warmWhiteLEDBrightness", "coolWhiteLEDBrightness"})
RecordedLevels ==
  << LevelEffects[Len(LevelEffects) - 1][2], LevelEffects[Len(LevelEffects)][2] >>

\* C16: in normal mode with the primary function active, for every brightness
\* b and colour temperature c of the pair in use, both products are below
\* 65536, both quotients by 256 are below 256, the table indexes are these
\* quotients and the lights get the table entries at these indexes.
C16_Levels ==
  (Rendered /\ PrimaryActive /\ ~TestMode)
  => LET b == SelectedPair[1]
         c == SelectedPair[2]
     IN  /\ b * (255 - c) < 65536
         /\ b * c < 65536
         /\ (b * (255 - c)) \div 256 < 256
         /\ (b * c) \div 256 < 256
         /\ RecordedLevels = << (b * (255 - c)) \div 256, (b * c) \div 256 >>
         /\ Lights = << warmWhiteLuminanceTable[((b * (255 - c)) \div 256) + 1],
                        coolWhiteLuminanceTable[((b * c) \div 256) + 1] >>

\* The largest product, 255 * 255, which needs all 16 bits
C16_Witness ==
  /\ Rendered
  /\ PrimaryActive
  /\ ~TestMode
  /\ SelectedPair = <<255, 0>>
  /\ RecordedLevels = <<254, 0>>
  /\ Lights = <<warmWhiteLuminanceTable[255], 0>>

----------------------------------------------------------------------------
(* C17: brightness 50 at full cool *)

\* The configuration of the scenario, rendered
C17_Scenario ==
  /\ Rendered
  /\ PrimaryActive
  /\ ~TestMode
  /\ PrimaryPair = <<50, 255>>
  /\ cvValue[cvLightFctCtrl2] = 255

\* C17 as stated: in the scenario the levels are 0 and 50 and the lights get
\* the warm table's entry 0 and the cool table's entry 50.
C17_CoolLevel50 ==
  C17_Scenario
  => /\ RecordedLevels = <<0, 50>>
     /\ Lights = <<warmWhiteLuminanceTable[0 + 1], coolWhiteLuminanceTable[50 + 1]>>

\* C17: in the scenario the levels are 0 and 49 = (50 * 255) div 256 and the
\* lights get the warm table's entry 0 and the cool table's entry 49.
C17_CoolLevel49 ==
  C17_Scenario
  => /\ RecordedLevels = <<0, 49>>
     /\ Lights = <<warmWhiteLuminanceTable[0 + 1], coolWhiteLuminanceTable[49 + 1]>>

\* The scenario after setup, with the cool light on
C17_Witness ==
  /\ C17_Scenario
  /\ lastOp.op = "setup"
  /\ RecordedLevels[2] = 49
  /\ Lights[2] > 0

----------------------------------------------------------------------------
(* C18: the luminance tables *)

\* table[i] <= table[i+1] for every i in 0..254 (entry i is element i + 1)
NonDecreasing(table) == \A i \in 0 .. 254 : table[i + 1] <= table[i + 2]

\* C18: both luminance tables have exactly 256 entries, never decrease from
\* one index to the next over 0..255, and have 0 at index 0; so every index
\* updateLights computes is an index of the tables and no duty it looks up
\* is above the table's last entry.
C18_Tables ==
  /\ (Rendered /\ PrimaryActive /\ ~TestMode)
     => /\ RecordedLevels[1] \in 0 .. (Len(warmWhiteLuminanceTable) - 1)
        /\ RecordedLevels[2] \in 0 .. (Len(coolWhiteLuminanceTable) - 1)
        /\ Lights[1] <= warmWhiteLuminanceTable[255 + 1]
        /\ Lights[2] <= coolWhiteLuminanceTable[255 + 1]
  /\ Len(warmWhiteLuminanceTable) = 256
  /\ Len(coolWhiteLuminanceTable) = 256
  /\ NonDecreasing(warmWhiteLuminanceTable)
  /\ NonDecreasing(coolWhiteLuminanceTable)
  /\ warmWhiteLuminanceTable[0 + 1] = 0
  /\ coolWhiteLuminanceTable[0 + 1] = 0

\* Both tables were looked up in their upper half and gave the lights
C18_Witness ==
  /\ Rendered
  /\ PrimaryActive
  /\ ~TestMode
  /\ RecordedLevels = <<99, 100>>
  /\ Lights = <<warmWhiteLuminanceTable[99 + 1], coolWhiteLuminanceTable[100 + 1]>>
  /\ Lights[1] > 0
  /\ Lights[2] > 0

----------------------------------------------------------------------------
(* C19: setup loads the caches before it sets the lights *)

\* Positions in the last operation's effects of the effects of the given kinds
Positions(kinds) == { i \in DOMAIN lastOp.trace : lastOp.trace[i][1] \in kinds }

\* What updateLights writes for the CV values and function states the EEPROM
\* holds, in integers
PersistedCV(i) == eeprom[i]
PersistedActive(f) ==
  /\ f < numberOfFunctions
  /\ BitIsSet(eeprom[fctsEepromAddress + OwnerGroup(f)], OwnerBit(f))
PersistedLights ==
  IF ~PersistedActive(PersistedCV(cvLightFctCtrl)) THEN <<0, 0>>
  ELSE IF PersistedCV(cvLightTest) # 0
       THEN <<PersistedCV(cvLightBrightness), PersistedCV(cvLightColorTemperature)>>
  ELSE IF PersistedCV(cvLightFctCtrl2) # 255 /\ PersistedActive(PersistedCV(cvLightFctCtrl2))
       THEN GammaPair(<<PersistedCV(cvLightBrightness2), PersistedCV(cvLightColorTemperature2)>>)
  ELSE GammaPair(<<PersistedCV(cvLightBrightness), PersistedCV(cvLightColorTemperature)>>)

\* C19: in setup the function cache and the cached value of every CV are
\* loaded from the EEPROM before updateLights is called for the first time,
\* and the lights that call sets are those of the stored function states and
\* CV values, not those of the caches' initial values.
C19_LoadBeforeRender ==
  lastOp.op = "setup"
  => /\ \A g \in 0 .. (numberOfFunctionGroups - 1) :
          funcCache[g] = eeprom[fctsEepromAddress + g]
     /\ \A i \in CVIndexes : cvValue[i] = eeprom[i]
     /\ Positions({"readFuncsToCache"}) # {}
     /\ Positions({"readCVsToCache"}) # {}
     /\ Positions({"updateLights"}) # {}
     /\ \A i \in Positions({"readFuncsToCache", "readCVsToCache"}) :
          \A j \in Positions({"updateLights"}) : i < j
     /\ Lights = PersistedLights

\* After setup the lights are on from stored values; the caches' initial
\* values (all functions off) would have left them off
C19_Witness ==
  /\ lastOp.op = "setup"
  /\ Lights = PersistedLights
  /\ Lights[1] > 0
  /\ Lights[2] > 0
  /\ cvValue[cvLightBrightness] # cvDataInit[cvLightBrightness + 1].value

----------------------------------------------------------------------------
(* C20: the order of persistence, cache update and updateLights *)

\* C20: in a CV write with a new value and in a function group change with
\* new bits, every store to the EEPROM comes before every update of a cache
\* and before every call of updateLights.
C20_PersistFirst ==
  (lastOp.op \in {"notifyCVWrite", "notifyDccFunc"} /\ PersistCalls(lastOp.trace) # <<>>)
  => \A i \in Positions({"EEPROM.write", "EEPROM.put"}) :
       \A j \in Positions({"cvData.value", "funcCache", "updateLights"}) : i < j

----------------------------------------------------------------------------
(* C21: the EEPROM agrees with the caches *)

\* The EEPROM addresses of the CVs and of the function states
CVAddresses == 0 .. (nrCVs - 1)
FuncAddresses == fctsEepromAddress .. (fctsEepromAddress + numberOfFunctionGroups - 1)

\* C21: once setup has loaded the caches, after every event (CV write,
\* function group change, factory reset request or step, service mode,
\* acknowledge) the EEPROM byte at every table index equals the cached value
\* of that CV, the function block of the EEPROM equals funcCache, and the CV
\* addresses and the addresses of the function block, which ends at 255, do
\* not overlap.
C21_StoreAgreesWithCaches ==
  pc = "run"
  => /\ \A i \in CVIndexes : eeprom[i] = cvValue[i]
     /\ \A g \in 0 .. (numberOfFunctionGroups - 1) :
          eeprom[fctsEepromAddress + g] = funcCache[g]
     /\ CVAddresses \cap FuncAddresses = {}
     /\ \A a \in FuncAddresses : a <= 255
     /\ 255 \in FuncAddresses

\* A function group change that stored new bits, after a CV write or a reset
\* step that stored 0 as the brightness
C21_Witness ==
  /\ pc = "run"
  /\ lastOp.op = "notifyDccFunc"
  /\ Positions({"EEPROM.put"}) # {}
  /\ eeprom[fctsEepromAddress + lastOp.arg1] = lastOp.arg2
  /\ funcCache[lastOp.arg1] = lastOp.arg2
  /\ eeprom[cvLightBrightness] = 0
  /\ cvValue[cvLightBrightness] = 0

----------------------------------------------------------------------------
(* C22: a factory reset comes to its end *)

\* C22: with loop() finding the library ready again and again and reset
\* requests coming to an end, a pending factory reset leads to the idle state
\* (factoryDefaultCVIndex = 0), also when CV writes and function group
\* changes come between its steps.
C22_ResetTerminates == (factoryDefaultCVIndex # 0) ~> (factoryDefaultCVIndex = 0)

\* The reset armed by setup on a never programmed EEPROM has just ended,
\* after a function group change and a write of the test mode CV came
\* between its steps
C22_Witness ==
  /\ lastOp.op = "loop"
  /\ lastOp.arg1 = 1
  /\ lastOp.index = 1
  /\ factoryDefaultCVIndex = 0
  /\ cvValue[cvManufacturerVersionNumber] = 255
  /\ funcCache[FN_0_4] # 255
  /\ cvValue[cvLightTest] = 255

====
